---- MODULE Spec2Model ----
(***************************************************************************)
(* ConnectionDB (src/app.py): the password hasher, the credential store    *)
(* (users.json), the cookie session and the route handlers, as a state     *)
(* machine.  Strings that the code parses (stored hashes, e-mail           *)
(* addresses) are sequences of one-character strings; byte strings are     *)
(* sequences of numbers in 0..255.                                         *)
(***************************************************************************)
EXTENDS Integers, Sequences, FiniteSets, TLC

\* ------------------------------------------------------------------ bounds

\* Length of a generated salt (the code draws 16 bytes; the model scales it).
SaltLen == 1
\* Longest stored string enumerated when verify_password is checked alone.
MaxStoredLen == 5
\* Most rows the record store holds in the model.
MaxRecords == 1

\* ------------------------------------------------------- password hashing

\* salt = None: no byte string (its one element is no byte).
NoSalt == <<-1>>

DEFAULT_ADMIN == [username |-> "admin", password |-> "secret123"]

Passwords == {"secret123", "NewPass!23"}

\* password.encode("utf-8"): total on the model's passwords, one byte string each.
Encode(password) == IF password = "secret123" THEN <<0>> ELSE <<1>>

\* The bytes secrets.token_bytes draws from, scaled to one value.
SaltBytes == {0}

\* secrets.token_bytes(n): every byte string of length n.
token_bytes(n) == [1..n -> SaltBytes]

HexDigits == <<"0","1","2","3","4","5","6","7","8","9","a","b","c","d","e","f">>

UpperHex == <<"A","B","C","D","E","F">>

\* The value of one hexadecimal digit (either case), -1 for any other character.
HexVal(c) ==
  IF \E i \in 1..16 : HexDigits[i] = c
    THEN (CHOOSE i \in 1..16 : HexDigits[i] = c) - 1
    ELSE IF \E i \in 1..6 : UpperHex[i] = c
      THEN (CHOOSE i \in 1..6 : UpperHex[i] = c) + 9
      ELSE -1

\* bytes.hex(): two lower-case digits per byte.
RECURSIVE Hex(_)
Hex(bs) ==
  IF bs = <<>> THEN <<>>
  ELSE <<HexDigits[(bs[1] \div 16) + 1], HexDigits[(bs[1] % 16) + 1]>> \o Hex(Tail(bs))

IsSpace(c) == c = " "

\* bytes.fromhex(s): ASCII whitespace is skipped before each byte, then two
\* hexadecimal digits are required; anything else raises ValueError.
RECURSIVE FromHex(_)
FromHex(s) ==
  IF s = <<>> THEN [ok |-> TRUE, bytes |-> <<>>]
  ELSE IF IsSpace(s[1]) THEN FromHex(Tail(s))
  ELSE IF Len(s) < 2 \/ HexVal(s[1]) < 0 \/ HexVal(s[2]) < 0
    THEN [ok |-> FALSE, bytes |-> <<>>]
    ELSE LET rest == FromHex(SubSeq(s, 3, Len(s)))
         IN  [ok |-> rest.ok,
              bytes |-> IF rest.ok THEN <<16 * HexVal(s[1]) + HexVal(s[2])>> \o rest.bytes
                        ELSE <<>>]

\* hashlib.pbkdf2_hmac("sha256", pw, salt, 200_000), idealised: a deterministic
\* function of (pw, salt) with no collisions.
pbkdf2_hmac(pw, salt) == pw \o salt

\* str.split("$"): the fields between the delimiters, at least one.
RECURSIVE Split(_)
Split(s) ==
  IF s = <<>> THEN << <<>> >>
  ELSE LET rest == Split(Tail(s))
       IN  IF s[1] = "$" THEN << <<>> >> \o rest
           ELSE << <<s[1]>> \o rest[1] >> \o Tail(rest)

IsAscii(s) == \A i \in 1..Len(s) : s[i] # "é"

\* A hash_password that leaves the salt out of the key derivation.
hash_password_unsalted(password, salt) ==
  Hex(salt) \o <<"$">> \o Hex(pbkdf2_hmac(Encode(password), <<>>))

\* hash_password with the salt it uses (given, or drawn by the caller of the model).
hash_password(password, salt) ==
  Hex(salt) \o <<"$">> \o Hex(pbkdf2_hmac(Encode(password), salt))

\* The body of verify_password's try block: "true", "false", or "raise" when a
\* statement of it raises (the unpacking, fromhex, compare_digest).
VerifyBody(password, stored) ==
  LET parts == Split(stored) IN
  IF Len(parts) # 2 THEN "raise"
  ELSE LET salt == FromHex(parts[1]) IN
       IF ~salt.ok THEN "raise"
       ELSE LET candidate == Hex(pbkdf2_hmac(Encode(password), salt.bytes)) IN
            IF ~IsAscii(parts[2]) THEN "raise"
            ELSE IF candidate = parts[2] THEN "true" ELSE "false"

\* verify_password: the body, with every exception turned into False.
verify_password(password, stored) ==
  IF VerifyBody(password, stored) = "raise" THEN "false" ELSE VerifyBody(password, stored)

\* ------------------------------------------------------- credential store

Usernames == {"admin", "bob"}

\* request.session.get("user") when the session holds no user.
NoUser == "None"

\* users.get(username) when the mapping holds no such key.
NoStored == <<"None">>

EmptyMap == [u \in {} |-> <<>>]

\* users.json: absent, a JSON object (kind "json"), text that is not JSON
\* ("garbage"), or zero bytes ("empty", as open(USERS_FILE, "w") leaves it).
AbsentFile == [kind |-> "absent", users |-> EmptyMap]

GarbageFile == [kind |-> "garbage", users |-> EmptyMap]

EmptyFile == [kind |-> "empty", users |-> EmptyMap]

JsonFile(users) == [kind |-> "json", users |-> users]

\* An ensure_users_file that writes the default account whatever it finds.
ensure_users_file_always(f, salt) ==
  JsonFile([u \in {DEFAULT_ADMIN.username} |->
              hash_password(DEFAULT_ADMIN.password, salt)])

\* ensure_users_file: the file it leaves, given the salt hash_password draws.
ensure_users_file(f, salt) ==
  IF f.kind = "absent"
    THEN JsonFile([u \in {DEFAULT_ADMIN.username} |->
                     hash_password(DEFAULT_ADMIN.password, salt)])
    ELSE f

\* A load_users that reads unparsable content as a store with no users.
load_users_lenient(f, salt) ==
  LET g == ensure_users_file(f, salt)
  IN  [file |-> g, ok |-> TRUE, users |-> g.users, kind |-> g.kind]

\* load_users: the file after ensure_users_file, and json.load's result
\* (ok = FALSE when it raises JSONDecodeError).
load_users(f, salt) ==
  LET g == ensure_users_file(f, salt)
  IN  [file |-> g, ok |-> g.kind = "json", users |-> g.users, kind |-> g.kind]

\* An open that truncates nothing (the file is replaced only by the write).
open_w_kept(f) == f

\* open(USERS_FILE, "w") in save_users: the file is truncated at once.
open_w(f) == EmptyFile

\* A write that gives way to a mapping written since the file was opened.
json_dump_keep(f, users) == IF f.kind = "json" THEN f ELSE JsonFile(users)

\* json.dump(users, f) and the close that flushes it, on the file as it is
\* now: the whole text at once, over whatever the file holds (the text fits
\* the stream's buffer, and the entries keep their length).
json_dump(f, users) == JsonFile(users)

\* dict.get
Get(users, username) == IF username \in DOMAIN users THEN users[username] ELSE NoStored

\* An assignment that never reaches the mapping.
Put_dropped(users, username, value) == users

\* users[username] = value
Put(users, username, value) ==
  [u \in DOMAIN users \cup {username} |-> IF u = username THEN value ELSE users[u]]

\* ------------------------------------------------------------ record store

Emails == { <<"a","@","b",".","c">>, <<"a","b">> }

Has(s, c) == \E i \in 1..Len(s) : s[i] = c

\* add_record's check of the e-mail address.
ValidEmail(email) == Has(email, "@") /\ Has(email, ".")

\* connections.xlsx: absent, or a spreadsheet of rows (each row: its e-mail cell).
AbsentExcel == [exists |-> FALSE, rows |-> <<>>]

\* load_data: creates an empty spreadsheet when there is none, then reads it.
load_data(x) == IF x.exists THEN x ELSE [exists |-> TRUE, rows |-> <<>>]

\* save_data
save_data(rows) == [exists |-> TRUE, rows |-> rows]

\* --------------------------------------------------------------- the state

\* The browsers.  Each holds one session cookie, which SessionMiddleware
\* (outside src/) turns into request.session; the model takes its contract:
\* the cookie changes when a handler assigns or clears request.session, and
\* a browser's cookie is not set back by the response of an older request.
Clients == {"c1", "c2"}

Threads == {"t1", "t2"}

VARIABLES
  started,     \* the module has been imported (line 200 has run)
  file,        \* users.json
  excel,       \* connections.xlsx
  cookie,      \* per client: the user its session cookie carries
  thr,         \* per worker thread: the request it is in the middle of
  last,        \* the request answered last: its inputs and its response
  file0,       \* history: users.json as the process found it
  pristine,    \* history: no save_users has opened users.json yet
  changed,     \* history: the password change saved last, no save begun since
  h            \* the hasher exercised alone

vars == <<started, file, excel, cookie, thr, last, file0, pristine, changed, h>>

\* A thread between requests.  Inside change_password: pc is the place in the
\* handler, username the session's user, users the local mapping, current,
\* new_password and confirm the form fields once they have been tested.
Idle ==
  [pc |-> "idle", username |-> "-", users |-> EmptyMap, current |-> "-",
   new_password |-> "-", confirm |-> "-"]

\* No request answered yet.  Otherwise: op the handler, client the browser (of
\* a request answered in the step that took it), storeKind the kind of
\* users.json when the handler reached its load_users or returned before it
\* (the two handlers that read it), username the form field (do_login) or the
\* session's user (change_password), the other form fields, outcome the
\* response; lost is history (the users whose entry in users.json this
\* request's save replaced by the older one it had loaded).
NoRequest ==
  [op |-> "-", client |-> "-", storeKind |-> "-", username |-> "-",
   password |-> "-", current |-> "-", new_password |-> "-", confirm |-> "-",
   outcome |-> "-", lost |-> {}]

\* The hasher exercised alone: the call (hash_password then verify_password
\* of its result, or verify_password of a given stored string), its
\* arguments, and what it returned.
HIdle == [phase |-> "idle", call |-> "-", password |-> "-", salt |-> NoSalt,
          stored |-> <<>>, hashed |-> <<>>, result |-> "-"]

NoChange == [username |-> "-", new_password |-> "-"]

\* The credential mappings a deployment may start from.
InitMaps ==
  LET s0 == [i \in 1..SaltLen |-> 0]
      s1 == [i \in 1..SaltLen |-> 1]
  IN  { [u \in {"admin"} |-> hash_password("secret123", s1)],
        [u \in {"admin", "bob"} |->
           IF u = "admin" THEN hash_password("secret123", s0)
                          ELSE hash_password("NewPass!23", s0)],
        [u \in {"admin"} |-> <<>>],
        EmptyMap }

\* The process as it starts: users.json as an earlier run or an operator left
\* it, and the session cookies the browsers hold from an earlier run (they
\* stay valid when SESSION_SECRET comes from the environment).
SysInit ==
  /\ started = FALSE
  /\ file \in {AbsentFile, GarbageFile} \cup {JsonFile(m) : m \in InitMaps}
  /\ excel \in {AbsentExcel, [exists |-> TRUE, rows |-> <<>>]}
  /\ cookie \in [Clients -> {NoUser} \cup Usernames]
  /\ thr = [t \in Threads |-> Idle]
  /\ last = NoRequest
  /\ file0 = file
  /\ pristine = TRUE
  /\ changed = NoChange

Init ==
  /\ SysInit
  /\ excel = AbsentExcel
  /\ h = HIdle

\* ---------------------------------------------------------- the handlers

\* A handler that the model runs in one step is run by some free worker of
\* the thread pool; the threads named here are those inside change_password.
CanStart(t) == started /\ thr[t].pc = "idle"

\* The response of a handler that reads no form field of interest.
Answer(op, c, outcome) ==
  [NoRequest EXCEPT !.op = op, !.client = c, !.outcome = outcome]

\* The module's last line: ensure_users_file() at import, before any request.
Startup ==
  /\ ~started
  /\ started' = TRUE
  /\ \E salt \in token_bytes(SaltLen) : file' = ensure_users_file(file, salt)
  /\ UNCHANGED <<excel, cookie, thr, last, file0, pristine, changed, h>>

\* A handler with its session test left out.
NotLoggedIn_skipped(c) == FALSE

\* get_current_user(request) is None
NotLoggedIn(c) == cookie[c] = NoUser

\* GET /
index ==
  /\ started
  /\ \E c \in Clients :
       /\ excel' = load_data(excel)
       /\ last' = Answer("index", c, "page")
  /\ UNCHANGED <<started, file, cookie, thr, file0, pristine, changed, h>>

\* A test that looks the user up and never verifies the password.
login_ok_unverified(stored, password) ==
  /\ stored # NoStored
  /\ stored # <<>>

\* do_login's test: stored and verify_password(password, stored)
login_ok(stored, password) ==
  /\ stored # NoStored
  /\ stored # <<>>
  /\ verify_password(password, stored) = "true"

\* POST /login
do_login ==
  /\ started
  /\ \E c \in Clients, username \in Usernames, password \in Passwords,
        salt \in token_bytes(SaltLen) :
       LET r == load_users(file, salt)
           stored == Get(r.users, username)
           ok == login_ok(stored, password)
           req == [Answer("do_login", "-", "error500")
                     EXCEPT !.storeKind = r.kind, !.username = username,
                            !.password = password]
       IN  /\ file' = r.file
           /\ IF ~r.ok
                THEN /\ last' = req
                     /\ cookie' = cookie
                ELSE /\ last' = [req EXCEPT !.outcome = IF ok THEN "redirect_next"
                                                       ELSE "invalid_credentials"]
                     /\ cookie' = IF ok THEN [cookie EXCEPT ![c] = username] ELSE cookie
  /\ UNCHANGED <<started, excel, thr, file0, pristine, changed, h>>

\* GET /logout
logout ==
  /\ started
  /\ \E c \in Clients :
       /\ cookie' = [cookie EXCEPT ![c] = NoUser]
       /\ last' = Answer("logout", c, "redirect_home")
  /\ UNCHANGED <<started, file, excel, thr, file0, pristine, changed, h>>

\* POST /add
add_record ==
  /\ started
  /\ \E c \in Clients, email \in Emails :
       IF NotLoggedIn(c) THEN
         /\ last' = Answer("add_record", c, "redirect_login")
         /\ excel' = excel
       ELSE IF ~ValidEmail(email) THEN
         /\ last' = Answer("add_record", c, "invalid_email")
         /\ excel' = excel
       ELSE
         /\ Len(load_data(excel).rows) < MaxRecords
         /\ last' = Answer("add_record", c, "redirect_home")
         /\ excel' = save_data(Append(load_data(excel).rows, email))
  /\ UNCHANGED <<started, file, cookie, thr, file0, pristine, changed, h>>

\* POST /update/{idx}
update_record ==
  /\ started
  /\ \E c \in Clients, idx \in -1..MaxRecords, email \in Emails :
       IF NotLoggedIn(c) THEN
         /\ last' = Answer("update_record", c, "redirect_login")
         /\ excel' = excel
       ELSE
         LET df == load_data(excel) IN
         /\ excel' = IF 0 <= idx /\ idx < Len(df.rows)
                       THEN save_data([df.rows EXCEPT ![idx + 1] = email])
                       ELSE df
         /\ last' = Answer("update_record", c, "redirect_home")
  /\ UNCHANGED <<started, file, cookie, thr, file0, pristine, changed, h>>

\* GET /download: FileResponse fails when there is no spreadsheet to send.
download_excel ==
  /\ started
  /\ \E c \in Clients :
       last' = Answer("download_excel", c,
                 IF NotLoggedIn(c) THEN "redirect_login"
                 ELSE IF excel.exists THEN "file" ELSE "error500")
  /\ UNCHANGED <<started, file, excel, cookie, thr, file0, pristine, changed, h>>

\* The two tests in the other order.
change_decision_confirm_first(stored, current, new_password, confirm) ==
  IF new_password # confirm THEN "passwords_mismatch"
  ELSE IF stored = NoStored \/ stored = <<>> \/ verify_password(current, stored) # "true"
    THEN "current_incorrect"
  ELSE "ok"

\* change_password's two tests, in their order: the rejection, or "ok".
change_decision(stored, current, new_password, confirm) ==
  IF stored = NoStored \/ stored = <<>> \/ verify_password(current, stored) # "true"
    THEN "current_incorrect"
  ELSE IF new_password # confirm THEN "passwords_mismatch"
  ELSE "ok"

\* POST /change-password, up to users = load_users()
change_password_load(t) ==
  /\ CanStart(t)
  /\ \E c \in Clients, salt \in token_bytes(SaltLen) :
       LET r == load_users(file, salt)
           req == [Answer("change_password", c, "redirect_login")
                     EXCEPT !.storeKind = file.kind, !.username = cookie[c]]
       IN  IF NotLoggedIn(c) THEN
             /\ last' = req
             /\ thr' = thr
             /\ file' = file
           ELSE
             /\ file' = r.file
             /\ IF r.ok
                  THEN /\ thr' = [thr EXCEPT ![t] =
                                    [Idle EXCEPT !.pc = "cp_loaded", !.username = cookie[c],
                                                 !.users = r.users]]
                       /\ last' = last
                  ELSE /\ thr' = thr
                       /\ last' = [req EXCEPT !.outcome = "error500", !.storeKind = r.kind]
  /\ UNCHANGED <<started, excel, cookie, file0, pristine, changed, h>>

\* POST /change-password: the tests, then hash_password, users[username] = ...
\* and save_users as far as its open().
change_password_check(t) ==
  /\ thr[t].pc = "cp_loaded"
  /\ \E current \in Passwords, new_password \in Passwords, confirm \in Passwords :
       LET r == thr[t]
           stored == Get(r.users, r.username)
           d == change_decision(stored, current, new_password, confirm)
       IN  IF d # "ok" THEN
             /\ thr' = [thr EXCEPT ![t] = Idle]
             /\ file' = file
             /\ pristine' = pristine
             /\ changed' = changed
             /\ last' = [Answer("change_password", "-", d)
                           EXCEPT !.storeKind = "json", !.username = r.username,
                                  !.current = current, !.new_password = new_password,
                                  !.confirm = confirm]
           ELSE
             \E salt \in token_bytes(SaltLen) :
               LET hashed == hash_password(new_password, salt) IN
               /\ thr' = [thr EXCEPT ![t] =
                            [r EXCEPT !.pc = "cp_opened", !.current = current,
                                      !.new_password = new_password,
                                      !.confirm = confirm,
                                      !.users = Put(r.users, r.username, hashed)]]
               /\ file' = open_w(file)
               /\ pristine' = FALSE
               /\ changed' = NoChange
               /\ last' = last
  /\ UNCHANGED <<started, excel, cookie, file0, h>>

\* The users other than the writer's whose entry in f differs from the one in
\* users.
Overwritten(f, users, username) ==
  IF f.kind # "json" THEN {}
  ELSE {u \in (DOMAIN f.users \cap DOMAIN users) \ {username} : f.users[u] # users[u]}

\* POST /change-password: json.dump and the close in save_users, and the response.
change_password_write(t) ==
  /\ thr[t].pc = "cp_opened"
  /\ file' = json_dump(file, thr[t].users)
  /\ thr' = [thr EXCEPT ![t] = Idle]
  /\ last' = [Answer("change_password", "-", "password_updated")
                EXCEPT !.storeKind = "json", !.username = thr[t].username,
                       !.lost = Overwritten(file, thr[t].users, thr[t].username)]
  /\ changed' = [username |-> thr[t].username, new_password |-> thr[t].new_password]
  /\ UNCHANGED <<started, excel, cookie, file0, pristine, h>>

\* POST /change-password on the worker threads in T.
change_password(T) ==
  \/ \E t \in T : change_password_load(t)
  \/ \E t \in T : change_password_check(t)
  \/ \E t \in T : change_password_write(t)

\* The handlers that read or write the credential store or the session.
AuthRequest ==
  \/ do_login
  \/ logout
  \/ change_password({"t1"})

\* The handlers of the record store.
RecordRequest ==
  \/ index
  \/ add_record
  \/ update_record
  \/ download_excel

\* Authentication with one change_password in flight at a time, among logins
\* and logouts that run at any point of it (the record store left alone).
Next == Startup \/ AuthRequest

Spec == Init /\ [][Next]_vars

\* Two change_password requests in flight, from two browsers that are logged
\* in, on a store that holds two users.
RaceInit ==
  /\ Init
  /\ file.kind = "json" /\ DOMAIN file.users = Usernames
  /\ \A c \in Clients : cookie[c] # NoUser

NextRace == Startup \/ change_password(Threads)

SpecRace == RaceInit /\ [][NextRace]_vars

\* Every handler, from a first run (no users.json: the default account).
RoutesInit ==
  /\ SysInit
  /\ file = AbsentFile
  /\ cookie = [c \in Clients |-> NoUser]
  /\ h = HIdle

NextRoutes == Startup \/ AuthRequest \/ RecordRequest

SpecRoutes == RoutesInit /\ [][NextRoutes]_vars

\* ------------------------------------------------- the hasher alone

\* The characters of the stored strings tried: hexadecimal digits, the
\* delimiter, a letter that is no digit, a blank, a non-ASCII letter.
Chars == {"0", "1", "$", "g", " ", "é"}

Strings(n) == UNION {[1..k -> Chars] : k \in 0..n}

\* The salts a caller may pass to hash_password.
GivenSalts == UNION {[1..k -> {0, 1}] : k \in 0..(SaltLen + 1)}

HashInit ==
  /\ SysInit
  /\ file = AbsentFile
  /\ excel = AbsentExcel
  /\ cookie = [c \in Clients |-> NoUser]
  /\ \/ h \in {[HIdle EXCEPT !.phase = "called", !.call = "hash", !.password = p,
                              !.salt = s] :
                  p \in Passwords, s \in GivenSalts \cup {NoSalt}}
     \/ h \in {[HIdle EXCEPT !.phase = "called", !.call = "verify", !.password = p,
                              !.stored = x] :
                  p \in Passwords, x \in Strings(MaxStoredLen)}

\* hash_password(password, salt): a salt is drawn when none is given.
HashStep ==
  /\ h.phase = "called" /\ h.call = "hash"
  /\ \E s \in (IF h.salt = NoSalt THEN token_bytes(SaltLen) ELSE {h.salt}) :
       h' = [h EXCEPT !.phase = "hashed", !.hashed = hash_password(h.password, s)]
  /\ UNCHANGED <<started, file, excel, cookie, thr, last, file0, pristine, changed>>

\* verify_password(password, hash_password(password, salt))
VerifyHashedStep ==
  /\ h.phase = "hashed"
  /\ h' = [h EXCEPT !.phase = "verified", !.result = verify_password(h.password, h.hashed)]
  /\ UNCHANGED <<started, file, excel, cookie, thr, last, file0, pristine, changed>>

\* verify_password(password, stored)
VerifyStoredStep ==
  /\ h.phase = "called" /\ h.call = "verify"
  /\ h' = [h EXCEPT !.phase = "verified", !.result = verify_password(h.password, h.stored)]
  /\ UNCHANGED <<started, file, excel, cookie, thr, last, file0, pristine, changed>>

HashNext == HashStep \/ VerifyHashedStep \/ VerifyStoredStep

SpecHash == HashInit /\ [][HashNext]_vars

\* ------------------------------------------------------------ the claims

\* C5: for every password p and every salt s, given or generated,
\* verify_password(p, hash_password(p, s)) returns true.
C5_VerifyAcceptsOwnHash ==
  (h.call = "hash" /\ h.phase = "verified") => h.result = "true"

\* A generated salt was used, and the hash verified.
C5_Witness ==
  /\ h.call = "hash" /\ h.phase = "verified"
  /\ h.salt = NoSalt /\ h.password = "NewPass!23" /\ h.result = "true"

\* Every character of s is a hexadecimal digit.
IsHexString(s) == \A i \in 1..Len(s) : HexVal(s[i]) >= 0

\* stored is not of the form salt_hex$hash_hex: no "$", more than one "$", a
\* salt field that is not hexadecimal, or the empty string.
NotSaltHashForm(stored) ==
  \/ stored = <<>>
  \/ Len(Split(stored)) # 2
  \/ ~IsHexString(Split(stored)[1])

\* C6: for every password p and every stored string that is not of the form
\* salt_hex$hash_hex, verify_password(p, stored) returns false and raises
\* nothing.
C6_MalformedIsRejected ==
  (h.call = "verify" /\ h.phase = "verified" /\ NotSaltHashForm(h.stored))
    => h.result = "false"

\* The handlers that read the credential store.
StoreOps == {"do_login", "change_password"}

\* The step answers a request (or, for do_login, sets a session).
Answers(op) == last'.op = op /\ (last' # last \/ cookie' # cookie)

\* C1: after a change_password of user u to the new password n has reported
\* success, and with no other save begun since, a do_login(u, n) succeeds and
\* binds a session to u, and a do_login(u, p) with any other password p (the
\* old one) fails with 'Invalid credentials'.
C1_LoginAfterChange ==
  (last.op = "do_login" /\ changed # NoChange /\ last.username = changed.username)
    => /\ last.password = changed.new_password
            => /\ last.outcome = "redirect_next"
               /\ \E c \in Clients : cookie[c] = changed.username
       /\ last.password # changed.new_password
            => last.outcome = "invalid_credentials"

\* The default account has changed "secret123" into "NewPass!23", and a login
\* with the new password has then succeeded.
C1_Witness ==
  /\ file0 = AbsentFile
  /\ changed = [username |-> "admin", new_password |-> "NewPass!23"]
  /\ last.op = "do_login" /\ last.username = "admin"
  /\ last.password = "NewPass!23" /\ last.outcome = "redirect_next"

\* C2: do_login(username, password) sets the session's user to username if
\* and only if username is a key of the loaded store and verify_password of
\* the password and its stored hash is true; in every other case the session
\* is left unchanged and the outcome is 'Invalid credentials', whichever of the
\* two causes it has.
C2_LoginIffVerified ==
  [][(Answers("do_login") /\ file'.kind = "json") =>
       LET u == last'.username
           good == /\ u \in DOMAIN file'.users
                   /\ verify_password(last'.password, file'.users[u]) = "true"
       IN  /\ good => /\ last'.outcome = "redirect_next"
                      /\ \E c \in Clients : cookie' = [cookie EXCEPT ![c] = u]
           /\ ~good => /\ last'.outcome = "invalid_credentials"
                       /\ cookie' = cookie]_vars

\* A known user's wrong password was refused while another session stayed as
\* it was.
C2_Witness ==
  /\ last.op = "do_login" /\ last.outcome = "invalid_credentials"
  /\ file.kind = "json" /\ last.username \in DOMAIN file.users
  /\ \E c \in Clients : cookie[c] # NoUser

\* The step in which thread t leaves change_password's tests.
Tested(t) == thr[t].pc = "cp_loaded" /\ thr'[t].pc # "cp_loaded"

\* C3: change_password for a logged-in user rejects with 'Current password
\* incorrect' whenever the current password does not verify against the
\* user's stored hash, whatever new_password and confirm are, and with
\* 'Passwords do not match' when it verifies and new_password differs from
\* confirm; a rejection leaves users.json as it is and does not enter
\* save_users.
C3_RejectionOrder ==
  [][\A t \in Threads : Tested(t) =>
       LET rejected == thr'[t].pc = "idle"
           form == IF rejected THEN last' ELSE thr'[t]
           stored == Get(thr[t].users, thr[t].username)
           verified == verify_password(form.current, stored) = "true"
           kept == rejected /\ file' = file /\ pristine' = pristine
                     /\ last'.op = "change_password"
       IN  /\ ~verified => kept /\ last'.outcome = "current_incorrect"
           /\ (verified /\ form.new_password # form.confirm)
                => kept /\ last'.outcome = "passwords_mismatch"
           /\ (verified /\ form.new_password = form.confirm) => ~rejected]_vars

\* A wrong current password was reported although new_password and confirm
\* differed too.
C3_Witness ==
  /\ last.op = "change_password" /\ last.outcome = "current_incorrect"
  /\ last.new_password # last.confirm

\* C4: when there was no users.json, ensure_users_file and a load_users after
\* it yield a mapping with exactly one entry, for 'admin', whose hash verifies
\* the default password; when there was a users.json, ensure_users_file leaves
\* its content as it was.
C4_Bootstrap ==
  (started /\ pristine) =>
    IF file0.kind = "absent"
      THEN /\ file.kind = "json"
           /\ DOMAIN file.users = {"admin"}
           /\ verify_password(DEFAULT_ADMIN.password, file.users["admin"]) = "true"
           /\ \A t \in Threads : thr[t].pc = "cp_loaded" => thr[t].users = file.users
      ELSE file = file0

\* There was no users.json, and a handler has loaded the one that was made.
C4_Witness ==
  /\ file0.kind = "absent" /\ started /\ pristine
  /\ \E t \in Threads : thr[t].pc = "cp_loaded" /\ DOMAIN thr[t].users = {"admin"}

\* C7: when two change_password requests have both loaded the store before
\* either saves, the store after the save that runs last is the mapping of
\* that request: the entry the other request had written is replaced by the
\* older one this request had loaded, and each of them reports 'Password
\* updated'.
C7_LastSaveWins ==
  [][\A t \in Threads : (thr[t].pc = "cp_opened" /\ thr'[t].pc = "idle") =>
       /\ file' = JsonFile(thr[t].users)
       /\ last'.op = "change_password" /\ last'.outcome = "password_updated"
       /\ \A u \in Overwritten(file, thr[t].users, thr[t].username) :
            /\ file'.users[u] # file.users[u]
            /\ file'.users[u] = thr[t].users[u]]_vars

\* Both requests are over, and the save that ran last has replaced the other
\* user's new entry.
C7_Witness ==
  /\ last.op = "change_password" /\ last.outcome = "password_updated"
  /\ last.lost # {}
  /\ \A t \in Threads : thr[t].pc = "idle"
  /\ file.kind = "json"
  /\ \A u \in last.lost : verify_password("secret123", file.users[u]) = "true"

\* C8, as the specification states it: a load_users never observes an empty
\* users.json.
C8_LoadNeverSeesEmptyFile ==
  (last.op \in StoreOps /\ last.outcome # "redirect_login") => last.storeKind # "empty"

\* A save_users that has opened users.json and not yet written it.
Saving(t) == thr[t].pc = "cp_opened"

\* C8, amended: the store is loaded fresh from the file on each operation and
\* saved as a whole-file rewrite in two steps, an open that empties the file
\* and a write of the whole mapping.  The file is empty only while some
\* save_users is between the two; a load_users that finds it so fails, and its
\* request ends in a server error; one that finds a mapping takes it as the
\* file holds it.
C8_SaveTruncatesThenWrites ==
  /\ [](file.kind = "empty" => \E t \in Threads : Saving(t))
  /\ []((last.op \in StoreOps /\ last.storeKind = "empty" /\ last.outcome # "redirect_login")
          => last.outcome = "error500")
  /\ [][\A t \in Threads :
          /\ (Tested(t) /\ Saving(t)') => file' = EmptyFile
          /\ (Saving(t) /\ ~Saving(t)') => file' = JsonFile(thr[t].users)
          /\ (thr[t].pc = "idle" /\ thr'[t].pc = "cp_loaded")
               => file.kind = "json" /\ file' = file /\ thr'[t].users = file.users]_vars

\* A login arrived while a save had emptied the file, and ended in a server
\* error.
C8_Witness ==
  /\ last.op = "do_login" /\ last.storeKind = "empty" /\ last.outcome = "error500"
  /\ \E t \in Threads : Saving(t)

\* The store as a load_users found it was not a JSON object.
Corrupt(kind) == kind \in {"garbage", "empty"}

\* C9, as the specification states it: a do_login or change_password request
\* that arrives when users.json is not valid JSON ends in the error.
C9_CorruptStoreIsAnError ==
  (last.op \in StoreOps /\ Corrupt(last.storeKind)) => last.outcome = "error500"

\* C9, amended: when users.json exists and is not valid JSON, load_users
\* fails; a do_login, or a change_password from a logged-in session, ends in
\* that error, never in 'Invalid credentials', sets no session and leaves the
\* file as it is; a change_password without a session is redirected to /login
\* before the store is read, and changes nothing either.
C9_CorruptStoreFailsLoads ==
  [][(last' # last /\ last'.op \in StoreOps /\ Corrupt(last'.storeKind)) =>
       /\ cookie' = cookie
       /\ file' = file
       /\ thr' = thr
       /\ IF last'.op = "change_password" /\ cookie[last'.client] = NoUser
            THEN last'.outcome = "redirect_login"
            ELSE last'.outcome = "error500"]_vars

\* A logged-in user's change_password found a file that is not JSON.
C9_Witness ==
  /\ last.op = "change_password" /\ last.storeKind = "garbage"
  /\ last.outcome = "error500" /\ cookie[last.client] # NoUser
  /\ file = GarbageFile

\* The handlers behind the login.
Protected == {"add_record", "update_record", "download_excel", "change_password"}

\* C10: the records are changed, the data file is returned and a password is
\* changed only by a request whose session carries a user; a request without
\* one is redirected to /login and changes neither the records nor the
\* credential mapping; a session gets a user only by a successful do_login,
\* and has none after a logout.
C10_OnlyLoggedIn ==
  [][/\ excel'.rows # excel.rows
          => /\ last'.op \in {"add_record", "update_record"}
             /\ last'.client \in Clients
             /\ cookie[last'.client] # NoUser
     /\ (last' # last /\ last'.outcome = "file")
          => last'.op = "download_excel" /\ cookie[last'.client] # NoUser
     /\ (started /\ file' # file)
          => \E t \in Threads : /\ thr[t].pc \in {"cp_loaded", "cp_opened"}
                                /\ thr'[t] # thr[t]
                                /\ thr[t].username \in Usernames
     /\ \A t \in Threads : (thr[t].pc = "idle" /\ thr'[t].pc = "cp_loaded")
          => \E c \in Clients : cookie[c] # NoUser /\ thr'[t].username = cookie[c]
     /\ (last' # last /\ last'.op \in Protected /\ last'.client \in Clients
           /\ cookie[last'.client] = NoUser)
          => /\ last'.outcome = "redirect_login"
             /\ excel' = excel /\ file' = file /\ thr' = thr
     /\ \A c \in Clients : cookie'[c] # cookie[c] =>
          IF cookie'[c] # NoUser
            THEN /\ last'.op = "do_login" /\ last'.outcome = "redirect_next"
                 /\ last'.username = cookie'[c]
            ELSE last'.op = "logout" /\ last'.client = c
     /\ (last' # last /\ last'.op = "logout") => cookie'[last'.client] = NoUser]_vars

\* A record has been added from a session, and a request to add one without
\* a session has been sent to /login.
C10_Witness ==
  /\ last.op = "add_record" /\ last.outcome = "redirect_login"
  /\ cookie[last.client] = NoUser
  /\ excel.rows # <<>>

====
